---- MODULE Spec2Model ----
(***************************************************************************)
(* Task Service (GraphQL) of services/graphql-api/server.js, as found in   *)
(* src/frontend-app/src/app/page.tsx lines 658-1017: the in-memory task    *)
(* store, the resolvers with their authorization checks, the request       *)
(* context and the PubSub change notifier.                                 *)
(*                                                                         *)
(* A request is served in one step: its resolver is synchronous, and Node  *)
(* runs it to completion before anything else touches the store. The step  *)
(* leaves the request and what the resolver returned or threw in req and   *)
(* resp until Respond sends the response.                                  *)
(***************************************************************************)
EXTENDS Integers, Sequences, FiniteSets, TLC

VARIABLES
    tasks,            \* let tasks = [...]            (the task list)
    taskActivities,   \* let taskActivities = [...]   (the activity list)
    subscribers,      \* the async iterators handed out by pubsub.asyncIterator
    published,        \* number of pubsub.publish calls made so far, per topic
    dropped,          \* sequence numbers of the events published to no listener
    uuidCount,        \* number of uuidv4() calls made so far
    clock,            \* the value new Date() returns
    phase,            \* "idle" | "done": no request, or one whose resolver has run
    req,              \* the request that was served last
    resp,             \* what its resolver returned or threw
    env,              \* process.env: AUTH_PUBLIC_KEY_URL and AUTH_SERVICE_URL
    cachedAuthPublicKey,  \* let cachedAuthPublicKey = ''
    calls             \* the calls of getAuthPublicKey and of the context function
                      \* that are under way, and what the finished ones returned

storeVars == <<tasks, taskActivities, subscribers, published, dropped, uuidCount,
               clock, phase, req, resp>>

authVars == <<env, cachedAuthPublicKey, calls>>

vars == <<tasks, taskActivities, subscribers, published, dropped, uuidCount,
          clock, phase, req, resp, env, cachedAuthPublicKey, calls>>

----------------------------------------------------------------------------
(* Bounds of the model *)

\* number of pubsub.publish calls (successful mutations) in a behaviour
MaxEvents == 2
\* the last millisecond the clock reaches
MaxClock == 1
\* number of subscription connections opened in a behaviour
MaxSubs == 2

----------------------------------------------------------------------------
(* JavaScript values *)

\* undefined / null / an absent header or argument
Undefined == "$undefined"

\* JavaScript truthiness of a string-or-undefined value
Truthy(v) == v # Undefined /\ v # ""

\* a || b
OrElse(a, b) == IF Truthy(a) THEN a ELSE b

\* the values uuidv4() returns, in the order it returns them
UUIDs == <<"uuid-1", "uuid-2", "uuid-3", "uuid-4", "uuid-5", "uuid-6">>

\* the (n+1)-th value returned by uuidv4(): never a value returned before
uuidv4(n) == UUIDs[n + 1]

----------------------------------------------------------------------------
(* Event names and subscription fields *)

TASK_CREATED == "TASK_CREATED"
TASK_UPDATED == "TASK_UPDATED"
TASK_DELETED == "TASK_DELETED"
TASK_ACTIVITY_ADDED == "TASK_ACTIVITY_ADDED"

Topics == {TASK_CREATED, TASK_UPDATED, TASK_DELETED, TASK_ACTIVITY_ADDED}

SubscriptionFields == {"taskCreated", "taskUpdated", "taskDeleted", "taskActivityAdded"}

SubscriptionMutantCrossed(field) ==
    CASE field = "taskCreated" -> TASK_UPDATED
      [] field = "taskUpdated" -> TASK_CREATED
      [] field = "taskDeleted" -> TASK_DELETED
      [] field = "taskActivityAdded" -> TASK_ACTIVITY_ADDED

\* resolvers.Subscription: the topic each subscription field listens on
Subscription(field) ==
    CASE field = "taskCreated" -> TASK_CREATED
      [] field = "taskUpdated" -> TASK_UPDATED
      [] field = "taskDeleted" -> TASK_DELETED
      [] field = "taskActivityAdded" -> TASK_ACTIVITY_ADDED

EventCount == published[TASK_CREATED] + published[TASK_UPDATED]
              + published[TASK_DELETED] + published[TASK_ACTIVITY_ADDED]

----------------------------------------------------------------------------
(* The caller identity: ApolloServer's context function *)

\* x-user-id, x-user-name, x-user-email, x-user-teams and x-user-role as a
\* request to the task resolvers can carry them. x-user-teams is held as the
\* list of its comma-separated parts, <<>> when the header is absent or empty.
HeaderIds == {Undefined, "u1"}
HeaderNames == {Undefined, "John Doe"}
HeaderRoles == {Undefined, "admin"}

Headers == [xUserId : HeaderIds, xUserName : HeaderNames, xUserEmail : {Undefined},
            xUserTeams : {<<>>}, xUserRole : HeaderRoles]

\* a payload's teams claim: an array of names, or a value that is no array
Teams(items) == [array |-> TRUE, items |-> items]
NoTeams == [array |-> FALSE, items |-> <<>>]

\* what the try block around decodeToken leaves in `decoded`: nothing
\* (verified = FALSE) when the request carries no bearer credential or its
\* verification threw, else the payload of the verified token
NoToken == [verified |-> FALSE, userId |-> Undefined, name |-> Undefined,
            email |-> Undefined, teams |-> NoTeams, role |-> Undefined]

DecodedTokens ==
    {NoToken,
     [verified |-> TRUE, userId |-> "u2", name |-> "Jane Smith",
      email |-> Undefined, teams |-> NoTeams, role |-> Undefined]}

\* context: async ({ req }) => ...: the identity the resolvers see
context(headers, decoded) ==
    LET id0    == OrElse(headers.xUserId, "")
        name0  == OrElse(headers.xUserName, "Guest")
        email0 == OrElse(headers.xUserEmail, "")
        teams0 == SelectSeq(headers.xUserTeams, Truthy)
        role0  == OrElse(headers.xUserRole, "user")
    IN  IF ~Truthy(id0) /\ decoded.verified
        THEN [userId    |-> OrElse(decoded.userId, id0),
              userName  |-> OrElse(decoded.name, name0),
              userEmail |-> OrElse(decoded.email, email0),
              userTeams |-> IF decoded.teams.array THEN decoded.teams.items ELSE teams0,
              userRole  |-> OrElse(decoded.role, role0)]
        ELSE [userId |-> id0, userName |-> name0, userEmail |-> email0,
              userTeams |-> teams0, userRole |-> role0]

Contexts == {context(h, d) : h \in Headers, d \in DecodedTokens}

----------------------------------------------------------------------------
(* The Identity Verifier: the public key endpoints, the key cache, jwt.verify *)

\* A URL is held as the list of the pieces it is written with, so that a
\* trailing "/" can be told and removed; <<>> is an unset or empty variable.
DefaultEnv == [AUTH_PUBLIC_KEY_URL |-> <<>>, AUTH_SERVICE_URL |-> <<>>]

\* the environments the service is started in
AuthEnvs ==
    {DefaultEnv,
     [AUTH_PUBLIC_KEY_URL |-> <<>>,
      AUTH_SERVICE_URL |-> <<"http://auth:3001", "/">>]}

\* url.replace(/\/$/, '')
stripSlash(url) ==
    IF Len(url) > 0 /\ url[Len(url)] = "/" THEN SubSeq(url, 1, Len(url) - 1) ELSE url

\* Boolean(url) of .filter(Boolean)
Configured(url) == url # <<>>

\* const PUBLIC_KEY_ENDPOINTS = [...].filter(Boolean)
PUBLIC_KEY_ENDPOINTS(e) ==
    SelectSeq(<<e.AUTH_PUBLIC_KEY_URL,
                IF Configured(e.AUTH_SERVICE_URL)
                THEN stripSlash(e.AUTH_SERVICE_URL) \o <<"/api/auth/public-key">>
                ELSE <<>>,
                <<"http://rest-api:3001", "/api/auth/public-key">>,
                <<"http://localhost:3001", "/api/auth/public-key">> >>,
              Configured)

\* the key material the identity service serves: the key that matches the
\* private key it signs with, and another key
PublicKeys == {"PUB-A", "PUB-B"}

\* what `await axios.get(endpoint)` comes back with: it throws (ok = FALSE), or
\* it returns a response whose data is empty or is key material
AxiosResponses ==
    {[ok |-> FALSE, data |-> ""], [ok |-> TRUE, data |-> ""]}
    \cup {[ok |-> TRUE, data |-> k] : k \in PublicKeys}

NoResponse == [ok |-> FALSE, data |-> Undefined]

usableMutantAnyData(response) == response.ok

\* the try block of getAuthPublicKey reaches `cachedAuthPublicKey = ...`:
\* axios.get did not throw and `if (response.data)` holds
usable(response) == response.ok /\ Truthy(response.data)

cachedMutantClear(cache, response) ==
    IF response.ok /\ Truthy(response.data) THEN response.data ELSE ""

\* cachedAuthPublicKey after getAuthPublicKey has handled a response: the
\* assignment is made in the branch of a usable response only
cached(cache, response) ==
    IF response.ok /\ Truthy(response.data) THEN response.data ELSE cache

\* the bearer credentials sent to the service, and what each one is: the
\* algorithm of its header, the key its signature was made with (for HS256 the
\* secret, here the text of the service's public key), and its payload
Jwts == {"jwt-rs256", "jwt-rs256-partial", "jwt-rs256-forged", "jwt-hs256"}

Jwt(token) ==
    CASE token = "jwt-rs256" ->
           [alg |-> "RS256", signedWith |-> "PRIV-A",
            payload |-> [verified |-> TRUE, userId |-> "u2", name |-> "Jane Smith",
                         email |-> "jane@example.com", teams |-> Teams(<<"team-b">>),
                         role |-> "member"]]
      [] token = "jwt-rs256-partial" ->
           [alg |-> "RS256", signedWith |-> "PRIV-A",
            payload |-> [verified |-> TRUE, userId |-> "u3", name |-> Undefined,
                         email |-> Undefined, teams |-> NoTeams, role |-> Undefined]]
      [] token = "jwt-rs256-forged" ->
           [alg |-> "RS256", signedWith |-> "PRIV-X",
            payload |-> [verified |-> TRUE, userId |-> "u9", name |-> "Mallory",
                         email |-> "mallory@example.com", teams |-> Teams(<<"team-x">>),
                         role |-> "owner"]]
      [] token = "jwt-hs256" ->
           [alg |-> "HS256", signedWith |-> "PUB-A",
            payload |-> [verified |-> TRUE, userId |-> "u9", name |-> "Mallory",
                         email |-> "mallory@example.com", teams |-> Teams(<<"team-x">>),
                         role |-> "owner"]]

\* the public key of a private key
PublicOf(privateKey) ==
    CASE privateKey = "PRIV-A" -> "PUB-A"
      [] privateKey = "PRIV-X" -> "PUB-X"
      [] OTHER -> Undefined

\* the signature of the token checks out under the key: an RS256 signature
\* under the public key of the private key that made it, an HS256 signature
\* under the secret that made it
SignatureValid(jwt, key) ==
    CASE jwt.alg = "RS256" -> PublicOf(jwt.signedWith) = key
      [] jwt.alg = "HS256" -> jwt.signedWith = key
      [] OTHER -> FALSE

verifyMutantAnyAlgorithm(token, publicKey, algorithms) ==
    CASE token \notin Jwts -> [error |-> "jwt malformed", decoded |-> NoToken]
      [] token \in Jwts /\ ~SignatureValid(Jwt(token), publicKey) ->
           [error |-> "invalid signature", decoded |-> NoToken]
      [] OTHER -> [error |-> "", decoded |-> Jwt(token).payload]

\* jwt.verify(token, publicKey, { algorithms }): the payload, or the error it
\* throws; the algorithm of the token's header is checked before its signature
verify(token, publicKey, algorithms) ==
    CASE token \notin Jwts -> [error |-> "jwt malformed", decoded |-> NoToken]
      [] token \in Jwts /\ Jwt(token).alg \notin algorithms ->
           [error |-> "invalid algorithm", decoded |-> NoToken]
      [] token \in Jwts /\ Jwt(token).alg \in algorithms
                        /\ ~SignatureValid(Jwt(token), publicKey) ->
           [error |-> "invalid signature", decoded |-> NoToken]
      [] OTHER -> [error |-> "", decoded |-> Jwt(token).payload]

KeyUnavailable == "Public key unavailable for token verification"

\* decodeToken(token), once getAuthPublicKey() has returned publicKey
decodeToken(token, publicKey) ==
    IF ~Truthy(publicKey)
    THEN [error |-> KeyUnavailable, decoded |-> NoToken]
    ELSE verify(token, publicKey, {"RS256"})

\* the authorization header is held as the list of its space-separated words,
\* <<>> when the header is absent:
\* authHeader.startsWith('Bearer ') ? authHeader.split(' ')[1] : authHeader
tokenOf(authHeader) ==
    CASE Len(authHeader) = 0 -> ""
      [] Len(authHeader) = 1 -> authHeader[1]
      [] Len(authHeader) >= 2 /\ authHeader[1] = "Bearer" -> authHeader[2]
      [] OTHER -> "$unsplit"

needsTokenMutantAlways(userId) == TRUE

\* if (!userId): the headers gave no user id, the bearer credential is looked at
needsToken(userId) == ~Truthy(userId)

\* the headers of the requests whose context is built: none, all five as the
\* gateway sets them, and a name and a role without an id
NoHeaders == [xUserId |-> Undefined, xUserName |-> Undefined, xUserEmail |-> Undefined,
              xUserTeams |-> <<>>, xUserRole |-> Undefined]

AuthHeaders ==
    {NoHeaders,
     [xUserId |-> "u1", xUserName |-> "John Doe", xUserEmail |-> "john@example.com",
      xUserTeams |-> <<"team-a", "", "team-c">>, xUserRole |-> "admin"],
     [NoHeaders EXCEPT !.xUserName = "John Doe", !.xUserRole = "admin"]}

Authorizations ==
    {<<>>, <<"jwt-rs256">>}
    \cup {<<"Bearer", t>> : t \in Jwts}

\* the boot-time call of getAuthPublicKey and the requests served at a time
Requesters == {"r1", "r2"}
Callers == {"boot"} \cup Requesters

\* no call under way
NoCall == [pc |-> "idle", headers |-> NoHeaders, authorization |-> <<>>,
           endpoint |-> 0, response |-> NoResponse, called |-> FALSE, key |-> "",
           error |-> "", ctx |-> context(NoHeaders, NoToken)]

\* module load: process.env is read, the cache is empty, and the call of
\* getAuthPublicKey() made while loading has sent its first axios.get
Boot(e) ==
    /\ env = e
    /\ cachedAuthPublicKey = ""
    /\ calls = [c \in Callers |->
                  IF c = "boot" THEN [NoCall EXCEPT !.pc = "fetching", !.endpoint = 1]
                  ELSE NoCall]

----------------------------------------------------------------------------
(* The store *)

Task(id, title, description, status, assignee, createdAt, updatedAt) ==
    [id |-> id, title |-> title, description |-> description, status |-> status,
     assignee |-> assignee, createdAt |-> createdAt, updatedAt |-> updatedAt]

TaskActivity(id, taskId, message, author, createdAt) ==
    [id |-> id, taskId |-> taskId, message |-> message, author |-> author,
     createdAt |-> createdAt]

\* the five new Date() calls made while the module is loaded: they are made in
\* this order, and the clock may move between any two of them
SeedStamps ==
    {st \in [1..5 -> 0..1] : st[1] = 0 /\ \A i \in 1..4 : st[i] <= st[i + 1]}

SeedTasks(st) ==
    << Task("t1", "Setup project structure",
            "Inisialisasi repository, konfigurasi Docker, dan API Gateway.",
            "TODO", "John Doe", st[1], st[2]),
       Task("t2", "Implement JWT authentication",
            "Integrasi JWT RS256 antara User Service dan API Gateway.",
            "IN_PROGRESS", "Jane Smith", st[3], st[4]) >>

SeedActivities(st) ==
    << TaskActivity("a1", "t2", "Task created", "Jane Smith", st[5]) >>

\* tasks.findIndex((t) => t.id === id), 1-based; -1 when no task has the id
findIndex(list, id) ==
    IF \E i \in 1..Len(list) : list[i].id = id
    THEN CHOOSE i \in 1..Len(list) :
            /\ list[i].id = id
            /\ \A j \in 1..(i - 1) : list[j].id # id
    ELSE -1

\* list.splice(idx, 1) with a 1-based idx
splice(list, idx) ==
    [i \in 1..(Len(list) - 1) |-> IF i < idx THEN list[i] ELSE list[i + 1]]

\* resolvers.Task.activities: the activities of one task
activities(acts, parent) ==
    LET OfParent(a) == a.taskId = parent.id IN SelectSeq(acts, OfParent)

notAllowedMutantInverted(ctx, task) ==
    ctx.userRole # "admin" /\ task.assignee = ctx.userName

\* the guard of updateTask and deleteTask: neither admin nor the assignee
notAllowed(ctx, task) ==
    ctx.userRole # "admin" /\ task.assignee # ctx.userName

----------------------------------------------------------------------------
(* The change notifier: const pubsub = new PubSub() *)

NoSubscriber == [state |-> "none", field |-> Undefined, since |-> 0, inbox |-> <<>>]

\* the iterator s is open and listens on the topic
Listening(s, topic) ==
    /\ subscribers[s].state = "open"
    /\ Subscription(subscribers[s].field) = topic

\* what a subscription on `field` sends to its client for a payload: the
\* payload's property of that name (undefined when the payload has none)
Delivered(field, payload) ==
    IF payload.field = field THEN payload.value ELSE Undefined

\* pubsub.publish(topic, payload): hands the payload to every iterator that is
\* listening on the topic at this moment, and keeps nothing
publish(topic, payload) ==
    LET seq == EventCount + 1 IN
    /\ published' = [published EXCEPT ![topic] = @ + 1]
    /\ subscribers' =
          [s \in DOMAIN subscribers |->
              IF Listening(s, topic)
              THEN [subscribers[s] EXCEPT
                      !.inbox = Append(@, [seq |-> seq, topic |-> topic,
                                           value |-> Delivered(subscribers[s].field,
                                                               payload)])]
              ELSE subscribers[s]]
    /\ dropped' = IF \E s \in DOMAIN subscribers : Listening(s, topic)
                  THEN dropped ELSE dropped \cup {seq}

NoPublish == UNCHANGED <<published, subscribers, dropped>>

----------------------------------------------------------------------------
(* Requests and responses *)

NoArgs == [id |-> Undefined, title |-> Undefined, description |-> Undefined,
           status |-> Undefined, assignee |-> Undefined, message |-> Undefined]

NoReq == [op |-> "none", args |-> NoArgs,
          context |-> [userId |-> "", userName |-> "", userEmail |-> "",
                       userTeams |-> <<>>, userRole |-> ""]]

NoResp == [kind |-> "none", error |-> "", data |-> Undefined]

\* throw new Error(msg): the resolver ends and has changed nothing
Throw(msg) ==
    /\ resp' = [kind |-> "error", error |-> msg, data |-> Undefined]
    /\ UNCHANGED <<tasks, taskActivities, uuidCount>>
    /\ NoPublish

\* return value
Return(value) == resp' = [kind |-> "data", error |-> "", data |-> value]

\* the server is ready to run a resolver
Ready == phase = "idle" /\ EventCount < MaxEvents

\* the resolver of `op` runs for a request with these arguments and context
Resolving(op, args, ctx) ==
    /\ Ready
    /\ phase' = "done"
    /\ req' = [op |-> op, args |-> args, context |-> ctx]
    /\ UNCHANGED clock
    /\ UNCHANGED authVars

----------------------------------------------------------------------------
(* resolvers.Mutation *)

authenticatedMutantName(ctx) == Truthy(ctx.userName)

\* the negation of `!context.userId`: the caller is authenticated
authenticated(ctx) == Truthy(ctx.userId)

taskExistsMutantAny(list, id) == \E i \in 1..Len(list) : Truthy(list[i].id)

\* tasks.find((t) => t.id === taskId) finds a task
taskExists(list, id) == \E i \in 1..Len(list) : list[i].id = id

\* ids numbered after the length of the task list, as the seed tasks are
LengthIds == <<"t1", "t2", "t3", "t4", "t5", "t6", "t7">>

newTaskMutantLengthId(args, ctx, n, now) ==
    Task(LengthIds[Len(tasks) + 1], args.title, args.description, "TODO",
         OrElse(args.assignee, OrElse(ctx.userName, "Unassigned")), now, now)

\* const task = { id: uuidv4(), title, description, status: 'TODO', ... }
newTask(args, ctx, n, now) ==
    Task(uuidv4(n), args.title, args.description, "TODO",
         OrElse(args.assignee, OrElse(ctx.userName, "Unassigned")), now, now)

createTask(args, ctx) ==
    /\ Resolving("createTask", args, ctx)
    /\ IF ~authenticated(ctx)
       THEN Throw("Authentication required to create a task.")
       ELSE LET task == newTask(args, ctx, uuidCount, clock) IN
            /\ uuidCount' = uuidCount + 1
            /\ tasks' = Append(tasks, task)
            /\ publish(TASK_CREATED, [field |-> "taskCreated", value |-> task])
            /\ Return(task)
            /\ UNCHANGED taskActivities

mergeMutantOverwrite(task, args, now) ==
    [task EXCEPT !.title       = args.title,
                 !.description = args.description,
                 !.status      = args.status,
                 !.assignee    = args.assignee,
                 !.updatedAt   = now]

mergeMutantStale(task, args, now) ==
    [task EXCEPT !.title       = IF Truthy(args.title) THEN args.title ELSE @,
                 !.description = IF Truthy(args.description) THEN args.description ELSE @,
                 !.status      = IF Truthy(args.status) THEN args.status ELSE @,
                 !.assignee    = IF Truthy(args.assignee) THEN args.assignee ELSE @,
                 !.updatedAt   = task.createdAt]

\* { ...task, ...(title && { title }), ..., updatedAt: new Date().toISOString() }
merge(task, args, now) ==
    [task EXCEPT !.title       = IF Truthy(args.title) THEN args.title ELSE @,
                 !.description = IF Truthy(args.description) THEN args.description ELSE @,
                 !.status      = IF Truthy(args.status) THEN args.status ELSE @,
                 !.assignee    = IF Truthy(args.assignee) THEN args.assignee ELSE @,
                 !.updatedAt   = now]

updateTask(args, ctx) ==
    /\ Resolving("updateTask", args, ctx)
    /\ LET idx == findIndex(tasks, args.id) IN
       IF idx = -1
       THEN Throw("Task not found")
       ELSE LET task == tasks[idx] IN
            IF notAllowed(ctx, task)
            THEN Throw("You are not allowed to update this task.")
            ELSE LET updated == merge(task, args, clock) IN
                 /\ tasks' = [tasks EXCEPT ![idx] = updated]
                 /\ publish(TASK_UPDATED, [field |-> "taskUpdated", value |-> updated])
                 /\ Return(updated)
                 /\ UNCHANGED <<taskActivities, uuidCount>>

\* const activity = { id: uuidv4(), taskId, message, author: ..., createdAt: ... }
newActivity(args, ctx, n, now) ==
    TaskActivity(uuidv4(n), args.id, args.message, OrElse(ctx.userName, "Unknown"), now)

addTaskActivity(args, ctx) ==
    /\ Resolving("addTaskActivity", args, ctx)
    /\ IF ~authenticated(ctx)
       THEN Throw("Authentication required to add activity.")
       ELSE IF ~taskExists(tasks, args.id)
       THEN Throw("Task not found")
       ELSE LET activity == newActivity(args, ctx, uuidCount, clock) IN
            /\ uuidCount' = uuidCount + 1
            /\ taskActivities' = Append(taskActivities, activity)
            /\ publish(TASK_ACTIVITY_ADDED,
                       [field |-> "taskActivityAdded", value |-> activity])
            /\ Return(activity)
            /\ UNCHANGED tasks

deleteUnknownMutantThrow == Throw("Task not found")

\* if (idx === -1) { return false; }
deleteUnknown ==
    /\ Return(FALSE)
    /\ UNCHANGED <<tasks, taskActivities, uuidCount>>
    /\ NoPublish

purgeMutantKeep(acts, id) == acts

\* taskActivities.filter((a) => a.taskId !== id)
purge(acts, id) == LET Other(a) == a.taskId # id IN SelectSeq(acts, Other)

deleteTask(args, ctx) ==
    /\ Resolving("deleteTask", args, ctx)
    /\ LET id  == args.id
           idx == findIndex(tasks, id)
       IN
       IF idx = -1
       THEN deleteUnknown
       ELSE LET task == tasks[idx] IN
            IF notAllowed(ctx, task)
            THEN Throw("You are not allowed to delete this task.")
            ELSE /\ tasks' = splice(tasks, idx)
                 /\ taskActivities' = purge(taskActivities, id)
                 /\ publish(TASK_DELETED, [field |-> "taskDeleted", value |-> id])
                 /\ Return(TRUE)
                 /\ UNCHANGED uuidCount

----------------------------------------------------------------------------
(* The requests the model sends *)

RequestIds == {"t1", "t2", "uuid-1", "t404"}

\* createTask(title: String!, description: String!, assignee: String!): every
\* combination of an empty and a non-empty title and description, and an
\* empty assignee
CreateArgs ==
    {[NoArgs EXCEPT !.title = t, !.description = d, !.assignee = "Jane Smith"] :
        t \in {"", "New task"}, d \in {"", "Details"}}
    \cup {[NoArgs EXCEPT !.title = "New task", !.description = "Details",
                         !.assignee = ""]}

\* updateTask(id: ID!, title, description, status, assignee): nothing supplied,
\* each field supplied alone, an empty title supplied, and all four supplied
Patches ==
    {NoArgs,
     [NoArgs EXCEPT !.title = "Renamed"],
     [NoArgs EXCEPT !.title = ""],
     [NoArgs EXCEPT !.description = "Rewritten"],
     [NoArgs EXCEPT !.status = "DONE"],
     [NoArgs EXCEPT !.assignee = "Guest"],
     [NoArgs EXCEPT !.title = "Renamed", !.description = "Rewritten",
                    !.status = "DONE", !.assignee = "Guest"]}

UpdateArgs == {[p EXCEPT !.id = i] : i \in RequestIds, p \in Patches}

ActivityArgs ==
    {[NoArgs EXCEPT !.id = i, !.message = m] : i \in RequestIds, m \in {"Note"}}

DeleteArgs == {[NoArgs EXCEPT !.id = i] : i \in RequestIds}

----------------------------------------------------------------------------
(* The steps *)

Init ==
    \E st \in SeedStamps :
        /\ tasks = SeedTasks(st)
        /\ taskActivities = SeedActivities(st)
        /\ clock = st[5]
        /\ subscribers = [s \in 1..MaxSubs |-> NoSubscriber]
        /\ published = [t \in Topics |-> 0]
        /\ dropped = {}
        /\ uuidCount = 0
        /\ phase = "idle"
        /\ req = NoReq
        /\ resp = NoResp
        /\ Boot(DefaultEnv)

\* the response is sent
Respond ==
    /\ phase = "done"
    /\ phase' = "idle"
    /\ req' = NoReq
    /\ resp' = NoResp
    /\ UNCHANGED <<tasks, taskActivities, subscribers, published, dropped,
                   uuidCount, clock>>
    /\ UNCHANGED authVars

\* a millisecond passes
Tick ==
    /\ phase = "idle"
    /\ clock < MaxClock
    /\ clock' = clock + 1
    /\ UNCHANGED <<tasks, taskActivities, subscribers, published, dropped,
                   uuidCount, phase, req, resp>>
    /\ UNCHANGED authVars

Next ==
    \/ Ready /\ \E args \in CreateArgs, ctx \in Contexts : createTask(args, ctx)
    \/ Ready /\ \E args \in UpdateArgs, ctx \in Contexts : updateTask(args, ctx)
    \/ Ready /\ \E args \in ActivityArgs, ctx \in Contexts : addTaskActivity(args, ctx)
    \/ Ready /\ \E args \in DeleteArgs, ctx \in Contexts : deleteTask(args, ctx)
    \/ Respond
    \/ Tick

Spec == Init /\ [][Next]_vars

----------------------------------------------------------------------------
(* The service with subscription connections *)

SubscribeMutantReplay(s, field) ==
    /\ phase = "idle"
    /\ subscribers[s].state = "none"
    /\ \A r \in 1..(s - 1) : subscribers[r].state # "none"
    /\ subscribers' =
          [subscribers EXCEPT
              ![s] = [state |-> "open", field |-> field, since |-> EventCount,
                      inbox |-> [k \in 1..published[Subscription(field)] |->
                                   [seq |-> k, topic |-> Subscription(field),
                                    value |-> Undefined]]]]
    /\ UNCHANGED <<tasks, taskActivities, published, dropped, uuidCount, clock,
                   phase, req, resp>>
    /\ UNCHANGED authVars

\* resolvers.Subscription.<field>.subscribe: a client opens a subscription and
\* gets a new iterator on the field's topic, with nothing in it
Subscribe(s, field) ==
    /\ phase = "idle"
    /\ subscribers[s].state = "none"
    /\ \A r \in 1..(s - 1) : subscribers[r].state # "none"
    /\ subscribers' =
          [subscribers EXCEPT
              ![s] = [state |-> "open", field |-> field, since |-> EventCount,
                      inbox |-> <<>>]]
    /\ UNCHANGED <<tasks, taskActivities, published, dropped, uuidCount, clock,
                   phase, req, resp>>
    /\ UNCHANGED authVars

\* the client's connection closes: the iterator stops listening and its queue
\* is emptied
Unsubscribe(s) ==
    /\ phase = "idle"
    /\ subscribers[s].state = "open"
    /\ subscribers' = [subscribers EXCEPT ![s] = [NoSubscriber EXCEPT !.state = "closed"]]
    /\ UNCHANGED <<tasks, taskActivities, published, dropped, uuidCount, clock,
                   phase, req, resp>>
    /\ UNCHANGED authVars

\* the callers of the requests sent while connections are open: an admin and
\* an anonymous caller
BusContexts ==
    {context([xUserId |-> "u1", xUserName |-> "John Doe", xUserEmail |-> Undefined,
              xUserTeams |-> <<>>, xUserRole |-> "admin"], NoToken),
     context([xUserId |-> Undefined, xUserName |-> Undefined,
              xUserEmail |-> Undefined, xUserTeams |-> <<>>,
              xUserRole |-> Undefined], NoToken)}

BusCreateArgs ==
    {[NoArgs EXCEPT !.title = "New task", !.description = "Details",
                    !.assignee = "Jane Smith"]}

BusUpdateArgs == {[NoArgs EXCEPT !.id = i, !.status = "DONE"] : i \in {"t1", "t404"}}

BusActivityArgs == {[NoArgs EXCEPT !.id = i, !.message = "Note"] : i \in {"t2", "t404"}}

BusDeleteArgs == {[NoArgs EXCEPT !.id = i] : i \in {"t2", "t404"}}

NextBus ==
    \/ Ready /\ \E args \in BusCreateArgs, ctx \in BusContexts : createTask(args, ctx)
    \/ Ready /\ \E args \in BusUpdateArgs, ctx \in BusContexts : updateTask(args, ctx)
    \/ Ready /\ \E args \in BusActivityArgs, ctx \in BusContexts :
                    addTaskActivity(args, ctx)
    \/ Ready /\ \E args \in BusDeleteArgs, ctx \in BusContexts : deleteTask(args, ctx)
    \/ \E s \in 1..MaxSubs, field \in SubscriptionFields : Subscribe(s, field)
    \/ \E s \in 1..MaxSubs : Unsubscribe(s)
    \/ Respond

SpecBus == Init /\ [][NextBus]_vars

----------------------------------------------------------------------------
(* The service building request contexts while the key is fetched *)

\* the rest of the context function once getAuthPublicKey() has returned
\* publicKey to decodeToken: the token is verified, or decodeToken throws and
\* the catch block logs the error, and the context is returned
Verified(call, publicKey) ==
    LET result == decodeToken(tokenOf(call.authorization), publicKey)
    IN  [call EXCEPT !.pc = "done", !.endpoint = 0, !.key = publicKey,
                     !.error = result.error,
                     !.ctx = context(call.headers, result.decoded)]

\* getAuthPublicKey() returns publicKey to the one who called it: to the
\* module's top level, or to decodeToken
Returned(c, call, publicKey) ==
    IF c = "boot"
    THEN [call EXCEPT !.pc = "done", !.endpoint = 0, !.key = publicKey]
    ELSE Verified(call, publicKey)

\* a request arrives and the context function runs up to its first await that
\* waits for the network: without a token to verify it returns at once; with a
\* cached key getAuthPublicKey returns it and the token is verified; else the
\* first endpoint is asked for the key
Request(r, headers, authorization) ==
    /\ calls[r].pc = "idle"
    /\ LET call  == [NoCall EXCEPT !.headers = headers,
                                   !.authorization = authorization]
           token == tokenOf(authorization)
       IN  IF ~(needsToken(OrElse(headers.xUserId, "")) /\ Truthy(token))
           THEN calls' = [calls EXCEPT ![r] =
                            [call EXCEPT !.pc = "done",
                                         !.ctx = context(headers, NoToken)]]
           ELSE IF Truthy(cachedAuthPublicKey)
           THEN calls' = [calls EXCEPT ![r] =
                            Verified([call EXCEPT !.called = TRUE],
                                     cachedAuthPublicKey)]
           ELSE calls' = [calls EXCEPT ![r] =
                            [call EXCEPT !.pc = "fetching", !.called = TRUE,
                                         !.endpoint = 1]]
    /\ UNCHANGED <<env, cachedAuthPublicKey>>
    /\ UNCHANGED storeVars

\* `await axios.get(endpoint)` comes back in a call of getAuthPublicKey: a
\* usable response is cached and returned, else the next endpoint is asked, and
\* after the last one '' is returned
Response(c, response) ==
    /\ calls[c].pc = "fetching"
    /\ cachedAuthPublicKey' = cached(cachedAuthPublicKey, response)
    /\ LET call == [calls[c] EXCEPT !.response = response]
       IN  IF usable(response)
           THEN calls' = [calls EXCEPT ![c] = Returned(c, call, response.data)]
           ELSE IF call.endpoint < Len(PUBLIC_KEY_ENDPOINTS(env))
           THEN calls' = [calls EXCEPT ![c] =
                            [call EXCEPT !.endpoint = call.endpoint + 1]]
           ELSE calls' = [calls EXCEPT ![c] = Returned(c, call, "")]
    /\ UNCHANGED env
    /\ UNCHANGED storeVars

\* the request's response is sent
Finish(r) ==
    /\ calls[r].pc = "done"
    /\ calls' = [calls EXCEPT ![r] = NoCall]
    /\ UNCHANGED <<env, cachedAuthPublicKey>>
    /\ UNCHANGED storeVars

InitAuth ==
    /\ tasks = SeedTasks(<<0, 0, 0, 0, 0>>)
    /\ taskActivities = SeedActivities(<<0, 0, 0, 0, 0>>)
    /\ clock = 0
    /\ subscribers = [s \in 1..MaxSubs |-> NoSubscriber]
    /\ published = [t \in Topics |-> 0]
    /\ dropped = {}
    /\ uuidCount = 0
    /\ phase = "idle"
    /\ req = NoReq
    /\ resp = NoResp
    /\ \E e \in AuthEnvs : Boot(e)

NextAuth ==
    \/ \E r \in Requesters, headers \in AuthHeaders, authorization \in Authorizations :
          Request(r, headers, authorization)
    \/ \E c \in Callers, response \in AxiosResponses : Response(c, response)
    \/ \E r \in Requesters : Finish(r)

SpecAuth == InitAuth /\ [][NextAuth]_vars

----------------------------------------------------------------------------
(* Vocabulary of the properties *)

\* this step runs the resolver of `op`
Serves(op) == phase = "idle" /\ phase' = "done" /\ req'.op = op

\* the resolver of `op` has just run
Served(op) == phase = "done" /\ req.op = op

\* some task of the list has the id
HasTask(list, id) == \E i \in 1..Len(list) : list[i].id = id

\* the step leaves the task list, the activity list and the notifier alone
NothingChanges ==
    /\ tasks' = tasks
    /\ taskActivities' = taskActivities
    /\ published' = published
    /\ subscribers' = subscribers
    /\ dropped' = dropped

\* the resolver threw an error with this message
Threw(r, msg) == r.kind = "error" /\ r.error = msg

----------------------------------------------------------------------------
(* C1 *)

\* the caller of the request is neither admin nor the assignee of any task of
\* the list that has the request's id
Outsider(r, list) ==
    /\ r.context.userRole # "admin"
    /\ \A i \in 1..Len(list) :
          list[i].id = r.args.id => list[i].assignee # r.context.userName

\* C1: updateTask and deleteTask on an existing task, by a caller whose role is
\* not admin and whose userName is not the task's assignee as it is before the
\* call, fail with the forbidden error and change neither the task list, nor the
\* activity list, nor what has been published.
C1_ForbiddenChangesNothing ==
    [][ /\ (Serves("updateTask") /\ HasTask(tasks, req'.args.id)
                                 /\ Outsider(req', tasks))
           => (Threw(resp', "You are not allowed to update this task.")
               /\ NothingChanges)
        /\ (Serves("deleteTask") /\ HasTask(tasks, req'.args.id)
                                 /\ Outsider(req', tasks))
           => (Threw(resp', "You are not allowed to delete this task.")
               /\ NothingChanges)
      ]_vars

\* an authenticated non-admin was refused the deletion of someone else's task
C1_Witness ==
    /\ Served("deleteTask")
    /\ Threw(resp, "You are not allowed to delete this task.")
    /\ req.context.userId = "u1"
    /\ req.context.userRole = "user"
    /\ req.args.id = "t2"

----------------------------------------------------------------------------
(* C5 *)

\* C5: deleteTask with an id that no task has returns false whoever the caller
\* is, throws nothing, publishes nothing and leaves the task list and the
\* activity list as they were (so that calling it again gives the same).
C5_DeleteUnknownReturnsFalse ==
    [][ (Serves("deleteTask") /\ ~HasTask(tasks, req'.args.id))
        => (/\ resp'.kind = "data"
            /\ resp'.data = FALSE
            /\ NothingChanges)
      ]_vars

\* an anonymous caller deleted a task that had been deleted before, and got false
C5_Witness ==
    /\ Served("deleteTask")
    /\ resp.kind = "data"
    /\ resp.data = FALSE
    /\ req.args.id = "t2"
    /\ req.context.userId = ""
    /\ published[TASK_DELETED] = 1

----------------------------------------------------------------------------
(* C9 *)

\* C9: updateTask with an id that no task has fails with the not-found error
\* whoever the caller is, and so does addTaskActivity by an authenticated
\* caller with a taskId that no task has; neither changes the task list or the
\* activity list, and neither publishes.
C9_UnknownIdNotFound ==
    [][ /\ (Serves("updateTask") /\ ~HasTask(tasks, req'.args.id))
           => (Threw(resp', "Task not found") /\ NothingChanges)
        /\ (Serves("addTaskActivity") /\ req'.context.userId # ""
                                      /\ ~HasTask(tasks, req'.args.id))
           => (Threw(resp', "Task not found") /\ NothingChanges)
      ]_vars

\* an authenticated caller added an activity to a task that does not exist
C9_Witness ==
    /\ Served("addTaskActivity")
    /\ Threw(resp, "Task not found")
    /\ req.context.userId # ""
    /\ ~HasTask(tasks, req.args.id)

----------------------------------------------------------------------------
(* C10 *)

\* C10: createTask succeeds iff the caller's userId is non-empty, and
\* addTaskActivity succeeds iff it is non-empty and the task exists, whatever
\* the caller's role and name and whoever the task's assignee is; with an
\* empty userId both fail with their authentication error, change nothing and
\* publish nothing.
C10_AuthenticatedOnly ==
    [][ /\ Serves("createTask")
           => /\ resp'.kind = "data" <=> req'.context.userId # ""
              /\ req'.context.userId = ""
                 => (Threw(resp', "Authentication required to create a task.")
                     /\ NothingChanges)
        /\ Serves("addTaskActivity")
           => /\ resp'.kind = "data"
                 <=> (req'.context.userId # "" /\ HasTask(tasks, req'.args.id))
              /\ req'.context.userId = ""
                 => (Threw(resp', "Authentication required to add activity.")
                     /\ NothingChanges)
      ]_vars

\* a caller who is neither admin nor the assignee added an activity to a task
C10_Witness ==
    /\ Served("addTaskActivity")
    /\ resp.kind = "data"
    /\ req.context.userRole = "user"
    /\ \E i \in 1..Len(tasks) :
          /\ tasks[i].id = req.args.id
          /\ tasks[i].assignee # req.context.userName
    /\ taskActivities[Len(taskActivities)] = resp.data

----------------------------------------------------------------------------
(* C4 *)

\* no activity of the list belongs to the task
NoActivityOf(acts, id) == \A j \in 1..Len(acts) : acts[j].taskId # id

\* the activities of the list that belong to other tasks, in their order
ActivitiesOfOthers(acts, id) ==
    LET Kept(a) == a.taskId # id IN SelectSeq(acts, Kept)

\* C4: a successful deleteTask(id) removes the task and, in the same step, every
\* activity whose taskId is id, and keeps the activities of the other tasks; from
\* then on the activities resolver finds no activity for an id that no task has.
C4_DeleteRemovesActivities ==
    [][ /\ (Serves("deleteTask") /\ resp'.kind = "data" /\ resp'.data = TRUE)
           => /\ ~HasTask(tasks', req'.args.id)
              /\ NoActivityOf(taskActivities', req'.args.id)
              /\ taskActivities' = ActivitiesOfOthers(taskActivities, req'.args.id)
        /\ \A id \in RequestIds :
              ~HasTask(tasks', id)
              => activities(taskActivities', [id |-> id]) = <<>>
      ]_vars

\* a task that had an activity was deleted while another task's activity stayed
C4_Witness ==
    /\ Served("deleteTask")
    /\ resp.kind = "data"
    /\ resp.data = TRUE
    /\ req.args.id = "t2"
    /\ Len(taskActivities) = 1
    /\ taskActivities[1].taskId = "t1"

----------------------------------------------------------------------------
(* C6 *)

\* C6: a successful updateTask leaves every field among title, description,
\* status and assignee that the call does not supply as it was, never changes
\* id and createdAt, and leaves every other task and the length of the list as
\* they were.
C6_PatchKeepsUnsuppliedFields ==
    [][ (Serves("updateTask") /\ resp'.kind = "data")
        => /\ Len(tasks') = Len(tasks)
           /\ \A i \in 1..Len(tasks) :
                 IF tasks[i].id = req'.args.id
                 THEN /\ tasks'[i].id = tasks[i].id
                      /\ tasks'[i].createdAt = tasks[i].createdAt
                      /\ req'.args.title = Undefined
                         => tasks'[i].title = tasks[i].title
                      /\ req'.args.description = Undefined
                         => tasks'[i].description = tasks[i].description
                      /\ req'.args.status = Undefined
                         => tasks'[i].status = tasks[i].status
                      /\ req'.args.assignee = Undefined
                         => tasks'[i].assignee = tasks[i].assignee
                 ELSE tasks'[i] = tasks[i]
      ]_vars

\* an update that supplied only the status changed the status and kept the title
C6_Witness ==
    /\ Served("updateTask")
    /\ resp.kind = "data"
    /\ req.args.id = "t1"
    /\ req.args.status = "DONE"
    /\ req.args.title = Undefined
    /\ tasks[1].status = "DONE"
    /\ tasks[1].title = "Setup project structure"
    /\ tasks[1].assignee = "John Doe"

----------------------------------------------------------------------------
(* C7 *)

\* C7: the task a successful createTask returns has status TODO, createdAt equal
\* to updatedAt and an id that no task already in the list has, and it is
\* appended to the task list.
C7_CreatedTask ==
    [][ (Serves("createTask") /\ resp'.kind = "data")
        => /\ resp'.data.status = "TODO"
           /\ resp'.data.createdAt = resp'.data.updatedAt
           /\ ~HasTask(tasks, resp'.data.id)
           /\ tasks' = Append(tasks, resp'.data)
      ]_vars

\* a task was created after another one had been deleted
C7_Witness ==
    /\ Served("createTask")
    /\ resp.kind = "data"
    /\ published[TASK_DELETED] = 1
    /\ Len(tasks) = 2
    /\ tasks[2] = resp.data

----------------------------------------------------------------------------
(* C8 *)

\* C8: createTask by an authenticated caller with an empty title or an empty
\* description fails with an error, and no task in the list has an empty title
\* or an empty description.
C8_EmptyTitleOrDescriptionRejected ==
    /\ (Served("createTask") /\ req.context.userId # ""
          /\ (req.args.title = "" \/ req.args.description = ""))
       => resp.kind = "error"
    /\ \A i \in 1..Len(tasks) : tasks[i].title # "" /\ tasks[i].description # ""

----------------------------------------------------------------------------
(* C2 *)

OwnTopic(op) ==
    CASE op = "createTask" -> "TASK_CREATED"
      [] op = "updateTask" -> "TASK_UPDATED"
      [] op = "addTaskActivity" -> "TASK_ACTIVITY_ADDED"
      [] op = "deleteTask" -> "TASK_DELETED"

OwnField(op) ==
    CASE op = "createTask" -> "taskCreated"
      [] op = "updateTask" -> "taskUpdated"
      [] op = "addTaskActivity" -> "taskActivityAdded"
      [] op = "deleteTask" -> "taskDeleted"

Mutations == {"createTask", "updateTask", "addTaskActivity", "deleteTask"}

\* this step runs the resolver of `op` and it succeeds
Succeeds(op) ==
    /\ Serves(op)
    /\ resp'.kind = "data"
    /\ op = "deleteTask" => resp'.data = TRUE

\* what the subscribers of the mutation's topic are sent: the entity the
\* mutation returns, or the id for a deletion
Entity(op) == IF op = "deleteTask" THEN req'.args.id ELSE resp'.data

\* C2: every successful createTask, updateTask, addTaskActivity and deleteTask
\* publishes one event on its own topic and none on another topic, and every
\* subscription that is open on that topic's field when the mutation runs is
\* sent that event once; no other subscription is sent anything.
C2_OneEventPerMutation ==
    [][ \A op \in Mutations :
          Succeeds(op)
          => /\ \A t \in Topics :
                   published'[t] = published[t] + (IF t = OwnTopic(op) THEN 1 ELSE 0)
             /\ \A s \in DOMAIN subscribers :
                   IF subscribers[s].state = "open"
                      /\ subscribers[s].field = OwnField(op)
                   THEN subscribers'[s] =
                          [subscribers[s] EXCEPT
                              !.inbox = Append(@, [seq |-> EventCount + 1,
                                                   topic |-> OwnTopic(op),
                                                   value |-> Entity(op)])]
                   ELSE subscribers'[s] = subscribers[s]
      ]_vars

\* two subscriptions on taskUpdated and each was sent the one update
C2_Witness ==
    /\ Served("updateTask")
    /\ resp.kind = "data"
    /\ \A s \in 1..2 :
          /\ subscribers[s].state = "open"
          /\ subscribers[s].field = "taskUpdated"
          /\ Len(subscribers[s].inbox) = 1
          /\ subscribers[s].inbox[1].value = resp.data

----------------------------------------------------------------------------
(* C3 *)

\* C3: a subscription is never sent an event that was published before it was
\* opened, and an event published while nothing listens on its topic is never
\* sent to any subscription.
C3_NoPastEvents ==
    \A s \in DOMAIN subscribers :
        \A k \in 1..Len(subscribers[s].inbox) :
            /\ subscribers[s].inbox[k].seq > subscribers[s].since
            /\ subscribers[s].inbox[k].seq \notin dropped

\* a subscription opened after the first update was sent the second one only
C3_Witness ==
    /\ subscribers[1].state = "open"
    /\ subscribers[1].field = "taskUpdated"
    /\ subscribers[1].since = 1
    /\ published[TASK_UPDATED] = 2
    /\ 1 \in dropped
    /\ Len(subscribers[1].inbox) = 1
    /\ subscribers[1].inbox[1].seq = 2

----------------------------------------------------------------------------
(* C11 *)

\* the request's bearer credential is a well-formed token whose header names
\* another algorithm than RS256
OtherAlgorithm(call) ==
    /\ tokenOf(call.authorization) \in Jwts
    /\ Jwt(tokenOf(call.authorization)).alg # "RS256"

\* the identity a request gets from its headers alone
HeaderIdentity(call) == context(call.headers, NoToken)

\* C11: a request whose bearer credential is signed with another algorithm than
\* RS256 gets its identity from its headers and the defaults alone, none of
\* userId, userName, userEmail, userTeams and userRole comes from the token's
\* payload, and when the Identity Verifier was asked it ended with an error.
C11_OtherAlgorithmRejected ==
    \A r \in Requesters :
        (calls[r].pc = "done" /\ OtherAlgorithm(calls[r]))
        => /\ calls[r].ctx = HeaderIdentity(calls[r])
           /\ calls[r].ctx.userId # Jwt(tokenOf(calls[r].authorization)).payload.userId
           /\ calls[r].called => calls[r].error # ""

\* an HS256 token whose signature was made with the text of the public key the
\* service holds was refused for its algorithm
C11_Witness ==
    \E r \in Requesters :
        /\ calls[r].pc = "done"
        /\ calls[r].authorization = <<"Bearer", "jwt-hs256">>
        /\ calls[r].called
        /\ calls[r].key = "PUB-A"
        /\ calls[r].error = "invalid algorithm"
        /\ calls[r].ctx.userId = ""

----------------------------------------------------------------------------
(* C12 *)

\* content(response): the response came back with non-empty content
HasContent(response) == response.ok /\ response.data \in PublicKeys

\* this step hands the response of an axios.get to the call c
Answered(c) == calls[c].pc = "fetching" /\ calls'[c] # calls[c]

\* C12: a verification attempt that finds the cache empty asks the first
\* endpoint; each answer without content sends the call to the next endpoint of
\* the list and leaves the cache as it was; the first answer with content is
\* cached and returned and no further endpoint is asked; when the last
\* endpoint has answered without content the call returns no key, the cache is
\* as it was and the request's verification ends with the key-unavailable
\* error and the identity of its headers alone.
C12_EndpointsInOrder ==
    [][ /\ \A r \in Requesters :
              (calls[r].pc = "idle" /\ calls'[r].called /\ cachedAuthPublicKey = "")
              => (calls'[r].pc = "fetching" /\ calls'[r].endpoint = 1)
        /\ \A c \in Callers :
              Answered(c)
              => IF HasContent(calls'[c].response)
                 THEN /\ cachedAuthPublicKey' = calls'[c].response.data
                      /\ calls'[c].pc = "done"
                      /\ calls'[c].key = calls'[c].response.data
                 ELSE IF calls[c].endpoint < Len(PUBLIC_KEY_ENDPOINTS(env))
                 THEN /\ calls'[c].pc = "fetching"
                      /\ calls'[c].endpoint = calls[c].endpoint + 1
                      /\ cachedAuthPublicKey' = cachedAuthPublicKey
                 ELSE /\ calls'[c].pc = "done"
                      /\ calls'[c].key = ""
                      /\ cachedAuthPublicKey' = cachedAuthPublicKey
                      /\ c \in Requesters
                         => /\ calls'[c].error = KeyUnavailable
                            /\ calls'[c].ctx = HeaderIdentity(calls'[c])
      ]_vars

\* the boot-time fetch and a request's fetches all came back without content,
\* the request's verification failed for want of a key, and another request
\* fetched the key from the second endpoint and was verified with it
C12_Witness ==
    /\ calls["boot"].pc = "done"
    /\ calls["boot"].key = ""
    /\ calls["r1"].pc = "done"
    /\ calls["r1"].error = KeyUnavailable
    /\ calls["r1"].response = [ok |-> TRUE, data |-> ""]
    /\ calls["r2"].pc = "done"
    /\ calls["r2"].response = [ok |-> TRUE, data |-> "PUB-A"]
    /\ calls["r2"].error = ""
    /\ calls["r2"].ctx.userId = "u2"
    /\ cachedAuthPublicKey = "PUB-A"

----------------------------------------------------------------------------
(* C13 *)

\* a call of getAuthPublicKey waits for an endpoint's answer
InFlight(c) == calls[c].pc = "fetching"

\* C13: whatever the order in which the answers to concurrent calls arrive, a
\* non-empty cache never becomes empty; the cache changes only in a step in
\* which a call gets an answer with content, and after such a step it holds
\* that content; a call that returns without a key leaves the cache as it was;
\* and when the cache is populated and no call waits for an answer, the step
\* starts no fetch.
C13_CacheNeverCleared ==
    [][ /\ cachedAuthPublicKey # "" => cachedAuthPublicKey' # ""
        /\ cachedAuthPublicKey' # cachedAuthPublicKey
           => \E c \in Callers : /\ Answered(c)
                                 /\ HasContent(calls'[c].response)
        /\ \A c \in Callers :
              (Answered(c) /\ HasContent(calls'[c].response))
              => cachedAuthPublicKey' = calls'[c].response.data
        /\ \A c \in Callers :
              (Answered(c) /\ calls'[c].pc = "done" /\ calls'[c].key = "")
              => cachedAuthPublicKey' = cachedAuthPublicKey
        /\ (cachedAuthPublicKey # "" /\ \A c \in Callers : ~InFlight(c))
           => \A c \in Callers : calls'[c].pc # "fetching"
      ]_vars

\* three calls fetched at the same time: one got no key, one cached PUB-A, and
\* the one answered last replaced it with PUB-B
C13_Witness ==
    /\ calls["boot"].pc = "done"
    /\ calls["boot"].key = ""
    /\ calls["r1"].pc = "done"
    /\ calls["r1"].response = [ok |-> TRUE, data |-> "PUB-A"]
    /\ calls["r2"].pc = "done"
    /\ calls["r2"].response = [ok |-> TRUE, data |-> "PUB-B"]
    /\ cachedAuthPublicKey = "PUB-B"

----------------------------------------------------------------------------
(* C14 *)

\* the request carries the caller's id in x-user-id
IdentifiedByHeaders(call) == call.headers.xUserId \notin {Undefined, ""}

\* C14: a request that carries the caller's id in the forwarded headers gets
\* the identity of its headers whatever its authorization header holds:
\* decodeToken is not called for it, it never waits for a key endpoint and it
\* gets no key.
C14_HeadersTakePrecedence ==
    \A r \in Requesters :
        (calls[r].pc # "idle" /\ IdentifiedByHeaders(calls[r]))
        => /\ calls[r].pc = "done"
           /\ ~calls[r].called
           /\ calls[r].key = ""
           /\ calls[r].response = NoResponse
           /\ calls[r].error = ""
           /\ calls[r].ctx.userId = calls[r].headers.xUserId
           /\ calls[r].ctx.userName = calls[r].headers.xUserName
           /\ calls[r].ctx.userEmail = calls[r].headers.xUserEmail
           /\ calls[r].ctx.userRole = calls[r].headers.xUserRole
           /\ calls[r].ctx.userTeams = <<"team-a", "team-c">>

\* a request with the gateway's headers and a token the cached key verifies
\* was given the identity of its headers
C14_Witness ==
    \E r \in Requesters :
        /\ calls[r].pc = "done"
        /\ calls[r].headers.xUserId = "u1"
        /\ calls[r].authorization = <<"Bearer", "jwt-rs256">>
        /\ cachedAuthPublicKey = "PUB-A"
        /\ calls[r].ctx.userId = "u1"
        /\ calls[r].ctx.userName = "John Doe"

----------------------------------------------------------------------------
(* C15 *)

\* C15: whatever createTask, updateTask, addTaskActivity and deleteTask calls
\* have been made, every activity in the activity list has the id of a task
\* that is in the task list.
C15_NoOrphanActivity ==
    \A j \in 1..Len(taskActivities) : HasTask(tasks, taskActivities[j].taskId)

\* an activity was added to a task and the task was deleted afterwards, which
\* left the activity list empty
C15_Witness ==
    /\ published[TASK_ACTIVITY_ADDED] = 1
    /\ published[TASK_DELETED] = 1
    /\ ~HasTask(tasks, "t2")
    /\ taskActivities = <<>>

----------------------------------------------------------------------------
(* C16 *)

\* this step is a successful updateTask of the task with the id
Updates(id) ==
    Serves("updateTask") /\ resp'.kind = "data" /\ req'.args.id = id

\* C16: with a clock that only moves forward, every task's updatedAt is at
\* least its createdAt, and no step lowers it: a successful updateTask of the
\* task sets it to the current time, and every other step (a failed call, a call
\* on another task) leaves it as it was.
C16_UpdatedAtMonotonic ==
    [][ /\ clock' >= clock
        /\ \A j \in 1..Len(tasks') : tasks'[j].updatedAt >= tasks'[j].createdAt
        /\ \A i \in 1..Len(tasks), j \in 1..Len(tasks') :
              tasks'[j].id = tasks[i].id
              => /\ tasks'[j].updatedAt >= tasks[i].updatedAt
                 /\ Updates(tasks[i].id) => tasks'[j].updatedAt = clock'
                 /\ ~Updates(tasks[i].id) => tasks'[j].updatedAt = tasks[i].updatedAt
      ]_vars

\* a task created at 0 was updated at 1
C16_Witness ==
    /\ Served("updateTask")
    /\ resp.kind = "data"
    /\ req.args.id = "t1"
    /\ clock = 1
    /\ tasks[1].createdAt = 0
    /\ tasks[1].updatedAt = 1

----------------------------------------------------------------------------
(* C17 *)

\* C17: a call whose caller has an empty userId changes neither the task list
\* nor the activity list, whatever its role and name headers and whoever the
\* task's assignee is.
C17_AnonymousChangesNothing ==
    [][ (phase = "idle" /\ phase' = "done" /\ req'.context.userId = "")
        => (tasks' = tasks /\ taskActivities' = taskActivities)
      ]_vars

====
